---------------------------- MODULE Spec2Model ----------------------------
(***************************************************************************)
(* Model of the resume evaluator (src/app.py): the shared in-memory        *)
(* leaderboard `rankings`, the three routes GET /, POST /evaluate and      *)
(* POST /clear, and the asyncio scheduling of concurrent requests.         *)
(*                                                                         *)
(* Requests are coroutines on one event loop.  A coroutine runs without    *)
(* interruption between two awaits; `running` names the coroutine that     *)
(* holds the loop (0: none), and other requests step only then.  The       *)
(* awaits of POST /evaluate are `await f.read()`, which suspends when the  *)
(* upload is read in a thread pool, and the hand-off of the AI call to a   *)
(* worker thread (`asyncio.to_thread`), which always suspends.  call_ai    *)
(* catches every exception, so the handler's own `except` (line 152) is    *)
(* never entered and has no action here.                                   *)
(*                                                                         *)
(* `resp` is the response the last step sent and `aiRaw` the AI outcome    *)
(* the last step consumed (none for the other steps); `sinceClear` records *)
(* what has happened since the last POST /clear.                           *)
(*                                                                         *)
(* Entries are Python dicts shared by reference between `rankings` and a   *)
(* request's `results`; `ent` is the heap of those dicts (an entry's id is *)
(* its index), so a rank written through one list is seen through the      *)
(* other.  A rank of 0 stands for a dict with no "rank" key yet.  A dict   *)
(* that neither `rankings` nor a live `results` refers to is freed, as     *)
(* CPython's reference counting does.                                      *)
(***************************************************************************)
EXTENDS Integers, Sequences, FiniteSets, TLC

\* Files the clients upload in one run, over all POST /evaluate requests.
MaxUploads == 3

\* len(text) < 50 (app.py line 135) and Field(ge=0, le=100) (line 34).
MinTextLen == 50
ScoreMin == 0
ScoreMax == 100

\* The POST /evaluate requests, numbered in arrival order.
Reqs == {1, 2}

VARIABLES load, quota, rankings, ent, files, pc, idx, results, aiRaw, calls,
          running, resp, sinceClear

vars == <<load, quota, rankings, ent, files, pc, idx, results, aiRaw, calls,
          running, resp, sinceClear>>

----------------------------------------------------------------------------
\* Inputs

\* File names, as sequences of characters.
NameLowerPdf == <<"a", ".", "p", "d", "f">>
NameUpperPdf == <<"B", ".", "P", "D", "F">>
NameDocx == <<"c", ".", "d", "o", "c", "x">>
NameNoDot == <<"p", "d", "f">>

\* An upload: its name, the number of bytes read, whether pdfplumber can open
\* the bytes, and the length of the text extract_text() of each page gives
\* (0: None or "").
Upload(n, s, o, p) == [name |-> n, size |-> s, ok |-> o, pages |-> p]

Uploads ==
    { Upload(NameLowerPdf, 1, TRUE, <<60>>),
      Upload(NameUpperPdf, 1, TRUE, <<24, 0, 25>>),
      Upload(NameDocx, 1, TRUE, <<60>>),
      Upload(NameNoDot, 1, TRUE, <<60>>),
      Upload(NameLowerPdf, 0, TRUE, <<>>),
      Upload(NameLowerPdf, 1, FALSE, <<60>>),
      Upload(NameLowerPdf, 1, TRUE, <<0>>),
      Upload(NameLowerPdf, 1, TRUE, <<24, 24>>) }

FileLists(most) == UNION { [1..n -> Uploads] : n \in 1..most }

\* The uploads of overlapping requests: one that is evaluated, one skipped
\* before the first await, one skipped after `await f.read()`.
ConcUploads ==
    { Upload(NameLowerPdf, 1, TRUE, <<60>>),
      Upload(NameDocx, 1, TRUE, <<60>>),
      Upload(NameLowerPdf, 1, TRUE, <<24, 24>>) }

ConcFileLists(most) == UNION { [1..n -> ConcUploads] : n \in 1..most }

\* What the worker thread's call to the AI service ends with: a JSON object
\* with a score, or a failure of the call, of json.loads or of the schema.
Raw(k, s) == [kind |-> k, score |-> s]

RawOutcomes ==
    { Raw("json", s) : s \in {-1, 70, 90, 101} }
        \cup { Raw(k, 0) : k \in {"network", "malformed", "schema"} }

\* The outcomes of the AI calls of overlapping requests.
ConcRawOutcomes == { Raw("json", 70), Raw("json", 90), Raw("network", 0) }

\* The clients' load on the server in one run: "serial" sends the next
\* POST /evaluate after the response to the last, with uploads from Uploads
\* and AI outcomes from RawOutcomes; "overlap" sends them at any time, with
\* uploads from ConcUploads and AI outcomes from ConcRawOutcomes.  GET / and
\* POST /clear arrive at any time under both.  `quota` counts the uploads the
\* clients have left to send.
Loads == {"serial", "overlap"}

OutcomesOf(l) == IF l = "serial" THEN RawOutcomes ELSE ConcRawOutcomes

----------------------------------------------------------------------------
\* Pure helpers

\* str.lower() on one character.
LowerChar(c) ==
    CASE c = "P" -> "p"
      [] c = "D" -> "d"
      [] c = "F" -> "f"
      [] c = "B" -> "b"
      [] OTHER -> c

Lower(s) == [i \in 1..Len(s) |-> LowerChar(s[i])]

EndsWith(s, suffix) ==
    /\ Len(s) >= Len(suffix)
    /\ SubSeq(s, Len(s) - Len(suffix) + 1, Len(s)) = suffix

\* Mutant: the extension compared without lower().
IsPdfCaseSensitive(name) == EndsWith(name, <<".", "p", "d", "f">>)

\* f.filename.lower().endswith(".pdf")
IsPdf(name) == EndsWith(Lower(name), <<".", "p", "d", "f">>)

\* Length of `text` after the page loop: each page with text adds it and "\n".
RECURSIVE PagesLen(_)
PagesLen(pages) ==
    IF pages = <<>> THEN 0
    ELSE (IF Head(pages) > 0 THEN Head(pages) + 1 ELSE 0) + PagesLen(Tail(pages))

\* len(extract_text(content)): "" when the PDF cannot be opened, otherwise
\* the joined text with the trailing newline stripped.
ExtractTextLen(f) ==
    IF ~f.ok THEN 0
    ELSE IF PagesLen(f.pages) = 0 THEN 0 ELSE PagesLen(f.pages) - 1

\* Mutant: the minimum length off by one.
TooShortOffByOne(n) == n = 0 \/ n < MinTextLen - 1

\* `not text or len(text) < 50`
TooShort(n) == n = 0 \/ n < MinTextLen

\* Mutant: the score validated without its upper limit.
ValidScoreNoMax(s) == s >= ScoreMin

\* EvaluationResponse's validation of the score: Field(..., ge=0, le=100).
ValidScore(s) == s >= ScoreMin /\ s <= ScoreMax

Fallback ==
    [score |-> 0, suggestion |-> "AI Service Unavailable",
     justification |-> "Could not process resume.", edits |-> <<>>]

\* call_ai(): the parsed, validated response, or the fallback on any exception.
CallAi(raw) ==
    IF raw.kind = "json" /\ ValidScore(raw.score)
    THEN [score |-> raw.score, suggestion |-> "Good fit",
          justification |-> "Strong match", edits |-> <<"Add metrics">>]
    ELSE Fallback

\* Mutant: an unstable sort, which puts x before the elements of its score.
RECURSIVE InsertDescUnstable(_, _, _)
InsertDescUnstable(sorted, x, h) ==
    IF sorted = <<>> THEN <<x>>
    ELSE IF h[Head(sorted)].score > h[x].score
         THEN <<Head(sorted)>> \o InsertDescUnstable(Tail(sorted), x, h)
         ELSE <<x>> \o sorted

\* The position list.sort / sorted put x at in the already sorted prefix:
\* after every element whose score is at least x's (descending, stable).
RECURSIVE InsertDesc(_, _, _)
InsertDesc(sorted, x, h) ==
    IF sorted = <<>> THEN <<x>>
    ELSE IF h[Head(sorted)].score >= h[x].score
         THEN <<Head(sorted)>> \o InsertDesc(Tail(sorted), x, h)
         ELSE <<x>> \o sorted

\* Mutant: the sort without reverse=True.
RECURSIVE InsertAsc(_, _, _)
InsertAsc(sorted, x, h) ==
    IF sorted = <<>> THEN <<x>>
    ELSE IF h[Head(sorted)].score <= h[x].score
         THEN <<Head(sorted)>> \o InsertAsc(Tail(sorted), x, h)
         ELSE <<x>> \o sorted

RECURSIVE SortAscending(_, _)
SortAscending(seq, h) ==
    IF seq = <<>> THEN <<>>
    ELSE InsertAsc(SortAscending(SubSeq(seq, 1, Len(seq) - 1), h),
                   seq[Len(seq)], h)

\* sorted(seq, key=lambda x: x["score"], reverse=True) over heap h.
RECURSIVE SortDesc(_, _)
SortDesc(seq, h) ==
    IF seq = <<>> THEN <<>>
    ELSE InsertDesc(SortDesc(SubSeq(seq, 1, Len(seq) - 1), h), seq[Len(seq)], h)

\* for i, r in enumerate(seq): r["rank"] = i + 1
AssignRanks(seq, h) ==
    [e \in DOMAIN h |->
        IF \E i \in 1..Len(seq) : seq[i] = e
        THEN [h[e] EXCEPT !.rank = CHOOSE i \in 1..Len(seq) : seq[i] = e]
        ELSE h[e]]

\* What the template is given for a list of entries: the dicts as they are
\* when the response is built.
Render(seq, h) ==
    [i \in 1..Len(seq) |->
        [id |-> seq[i], score |-> h[seq[i]].score, rank |-> h[seq[i]].rank]]

NoResponse == [kind |-> "none", error |-> "", results |-> <<>>,
               rankings |-> <<>>]

\* The dicts still referred to by the leaderboard or by a request's results.
Live(h, rk, res) ==
    [e \in { x \in DOMAIN h :
                \/ \E i \in 1..Len(rk) : rk[i] = x
                \/ \E r \in DOMAIN res : \E i \in 1..Len(res[r]) : res[r][i] = x }
        |-> h[e]]

\* A fresh dict's place in the heap.
FreshId(h) ==
    CHOOSE id \in 1..(Cardinality(DOMAIN h) + 1) :
        /\ id \notin DOMAIN h
        /\ \A j \in 1..(id - 1) : j \in DOMAIN h

----------------------------------------------------------------------------
\* State machine

NoRaw == Raw("none", 0)

Init ==
    /\ load \in Loads
    /\ quota = MaxUploads
    /\ rankings = <<>>
    /\ ent = <<>>
    /\ files = [r \in Reqs |-> <<>>]
    /\ pc = [r \in Reqs |-> "idle"]
    /\ idx = [r \in Reqs |-> 0]
    /\ results = [r \in Reqs |-> <<>>]
    /\ aiRaw = NoRaw
    /\ calls = {}
    /\ running = 0
    /\ resp = NoResponse
    /\ sinceClear = {"noclear"}

InFlight(r) == pc[r] \notin {"idle", "done"}

\* GET /
Index ==
    /\ running = 0
    /\ LET sorted_rankings == SortDesc(rankings, ent)
           h == AssignRanks(sorted_rankings, ent)
       IN /\ ent' = h
          /\ resp' = [kind |-> "index", error |-> "", results |-> <<>>,
                      rankings |-> Render(sorted_rankings, h)]
    /\ aiRaw' = NoRaw
    /\ UNCHANGED <<load, quota, rankings, files, pc, idx, results, calls,
                   running, sinceClear>>

\* Mutant: `rankings = []`, which binds a local name and leaves the list.
ClearRebinds ==
    /\ running = 0
    /\ resp' = [kind |-> "clear", error |-> "", results |-> <<>>,
                rankings |-> <<>>]
    /\ sinceClear' = {}
    /\ aiRaw' = NoRaw
    /\ UNCHANGED <<load, quota, rankings, ent, files, pc, idx, results, calls,
                   running>>

\* POST /clear
Clear ==
    /\ running = 0
    /\ rankings' = <<>>
    /\ ent' = Live(ent, rankings', results)
    /\ resp' = [kind |-> "clear", error |-> "", results |-> <<>>,
                rankings |-> Render(rankings', ent')]
    /\ sinceClear' = {}
    /\ aiRaw' = NoRaw
    /\ UNCHANGED <<load, quota, files, pc, idx, results, calls, running>>

\* POST /evaluate is entered with the uploads fs: results = [] and the loop
\* starts.
Enter(r, fs) ==
    /\ files' = [files EXCEPT ![r] = fs]
    /\ results' = [results EXCEPT ![r] = <<>>]
    /\ idx' = [idx EXCEPT ![r] = 1]
    /\ pc' = [pc EXCEPT ![r] = "loop"]
    /\ running' = r
    /\ sinceClear' = IF "noclear" \in sinceClear THEN sinceClear
                     ELSE sinceClear \cup {"start"}
    /\ resp' = NoResponse
    /\ aiRaw' = NoRaw
    /\ quota' = quota - Len(fs)
    /\ UNCHANGED <<load, rankings, ent, calls>>

\* The event loop is free and r is the next request to arrive.
CanStart(r) ==
    /\ running = 0
    /\ pc[r] = "idle"
    /\ \A q \in Reqs : q < r => pc[q] # "idle"

StartSerial(r) ==
    /\ load = "serial"
    /\ CanStart(r)
    /\ \A q \in Reqs : ~InFlight(q)
    /\ \E fs \in FileLists(quota) : Enter(r, fs)

StartOverlap(r) ==
    /\ load = "overlap"
    /\ CanStart(r)
    /\ \E fs \in ConcFileLists(quota) : Enter(r, fs)

\* `for f in files` moves to the next file.
NextFile(k) == k + 1

Continue(r) ==
    /\ idx' = [idx EXCEPT ![r] = NextFile(idx[r])]
    /\ pc' = [pc EXCEPT ![r] = "loop"]

AtFile(r, at) ==
    /\ running = r
    /\ pc[r] = at
    /\ idx[r] <= Len(files[r])

\* 1. Validate File Type: not a .pdf name, continue.
SkipType(r) ==
    /\ AtFile(r, "loop")
    /\ ~IsPdf(files[r][idx[r]].name)
    /\ Continue(r)
    /\ resp' = NoResponse
    /\ aiRaw' = NoRaw
    /\ UNCHANGED <<load, quota, rankings, ent, files, results, calls, running,
                   sinceClear>>

\* content = await f.read(): the coroutine may yield the loop here.
BeginRead(r) ==
    /\ AtFile(r, "loop")
    /\ IsPdf(files[r][idx[r]].name)
    /\ pc' = [pc EXCEPT ![r] = "read"]
    /\ running' = 0
    /\ resp' = NoResponse
    /\ aiRaw' = NoRaw
    /\ UNCHANGED <<load, quota, rankings, ent, files, idx, results, calls,
                   sinceClear>>

ReadDone(r) ==
    /\ running = 0
    /\ pc[r] = "read"
    /\ pc' = [pc EXCEPT ![r] = "check"]
    /\ running' = r
    /\ resp' = NoResponse
    /\ aiRaw' = NoRaw
    /\ UNCHANGED <<load, quota, rankings, ent, files, idx, results, calls,
                   sinceClear>>

\* `if not content: continue`
SkipEmpty(r) ==
    /\ AtFile(r, "check")
    /\ files[r][idx[r]].size = 0
    /\ Continue(r)
    /\ resp' = NoResponse
    /\ aiRaw' = NoRaw
    /\ UNCHANGED <<load, quota, rankings, ent, files, results, calls, running,
                   sinceClear>>

\* `if not text or len(text) < 50: continue`
SkipShort(r) ==
    /\ AtFile(r, "check")
    /\ files[r][idx[r]].size > 0
    /\ TooShort(ExtractTextLen(files[r][idx[r]]))
    /\ Continue(r)
    /\ resp' = NoResponse
    /\ aiRaw' = NoRaw
    /\ UNCHANGED <<load, quota, rankings, ent, files, results, calls, running,
                   sinceClear>>

\* Mutant: the call is started as a task and the loop goes on without
\* awaiting it.
AwaitAiFanOut(r) ==
    /\ AtFile(r, "check")
    /\ files[r][idx[r]].size > 0
    /\ ~TooShort(ExtractTextLen(files[r][idx[r]]))
    /\ calls' = calls \cup {<<r, idx[r]>>}
    /\ Continue(r)
    /\ resp' = NoResponse
    /\ aiRaw' = NoRaw
    /\ UNCHANGED <<load, quota, rankings, ent, files, results, running,
                   sinceClear>>

\* res = await evaluate_resume(...): call_ai goes to a worker thread and the
\* coroutine yields the loop.
AwaitAi(r) ==
    /\ AtFile(r, "check")
    /\ files[r][idx[r]].size > 0
    /\ ~TooShort(ExtractTextLen(files[r][idx[r]]))
    /\ calls' = calls \cup {<<r, idx[r]>>}
    /\ pc' = [pc EXCEPT ![r] = "ai"]
    /\ running' = 0
    /\ resp' = NoResponse
    /\ aiRaw' = NoRaw
    /\ UNCHANGED <<load, quota, rankings, ent, files, idx, results,
                   sinceClear>>

\* The entry dict of lines 144-148, for file k of the request.
Entry(k, res) ==
    [file |-> k, score |-> res.score, suggestion |-> res.suggestion,
     justification |-> res.justification, edits |-> res.edits, rank |-> 0]

\* The worker thread's call ends with `raw` and the coroutine resumes with
\* call_ai's result, builds the entry, appends it to results and to rankings,
\* and goes on with the loop.
AppendEntry(r, raw) ==
    /\ running = 0
    /\ pc[r] = "ai"
    /\ LET entry == Entry(idx[r], CallAi(raw))
           id == FreshId(ent)
       IN /\ ent' = (id :> entry) @@ ent
          /\ results' = [results EXCEPT ![r] = Append(results[r], id)]
          /\ rankings' = Append(rankings, id)
    /\ aiRaw' = raw
    /\ calls' = calls \ {<<r, idx[r]>>}
    /\ Continue(r)
    /\ running' = r
    /\ sinceClear' = IF "noclear" \in sinceClear THEN sinceClear
                     ELSE sinceClear \cup {"append"}
    /\ resp' = NoResponse
    /\ UNCHANGED <<load, quota, files>>

AtEnd(r) ==
    /\ running = r
    /\ pc[r] = "loop"
    /\ idx[r] > Len(files[r])

\* The handler returns: its locals go, and the dicts only they referred to.
Return(r) ==
    /\ pc' = [pc EXCEPT ![r] = "done"]
    /\ files' = [files EXCEPT ![r] = <<>>]
    /\ idx' = [idx EXCEPT ![r] = 0]
    /\ results' = [results EXCEPT ![r] = <<>>]
    /\ running' = 0

\* Mutant: the empty batch sorts and ranks the leaderboard like the other
\* branch.
EmptyBatchSorts(r) ==
    /\ AtEnd(r)
    /\ results[r] = <<>>
    /\ rankings' = SortDesc(rankings, ent)
    /\ ent' = AssignRanks(rankings', ent)
    /\ resp' = [kind |-> "evaluate",
                error |-> "No valid PDFs were processed.",
                results |-> <<>>, rankings |-> Render(rankings', ent')]
    /\ Return(r)
    /\ aiRaw' = NoRaw
    /\ UNCHANGED <<load, quota, calls, sinceClear>>

\* `if not results`: the page with the error and rankings as it is.
EmptyBatch(r) ==
    /\ AtEnd(r)
    /\ results[r] = <<>>
    /\ resp' = [kind |-> "evaluate",
                error |-> "No valid PDFs were processed.",
                results |-> <<>>, rankings |-> Render(rankings, ent)]
    /\ Return(r)
    /\ aiRaw' = NoRaw
    /\ UNCHANGED <<load, quota, rankings, ent, calls, sinceClear>>

\* Sort Global Rankings, assign the ranks, respond.
Aggregate(r) ==
    /\ AtEnd(r)
    /\ results[r] # <<>>
    /\ rankings' = SortDesc(rankings, ent)
    /\ LET h == AssignRanks(rankings', ent)
       IN /\ resp' = [kind |-> "evaluate", error |-> "",
                      results |-> Render(results[r], h),
                      rankings |-> Render(rankings', h)]
          /\ Return(r)
          /\ ent' = Live(h, rankings', results')
    /\ aiRaw' = NoRaw
    /\ UNCHANGED <<load, quota, calls, sinceClear>>

Next ==
    \/ Index
    \/ Clear
    \/ \E r \in Reqs : StartSerial(r)
    \/ \E r \in Reqs : StartOverlap(r)
    \/ \E r \in Reqs : SkipType(r)
    \/ \E r \in Reqs : BeginRead(r)
    \/ \E r \in Reqs : ReadDone(r)
    \/ \E r \in Reqs : SkipEmpty(r)
    \/ \E r \in Reqs : SkipShort(r)
    \/ \E r \in Reqs : AwaitAi(r)
    \/ \E r \in Reqs, raw \in OutcomesOf(load) : AppendEntry(r, raw)
    \/ \E r \in Reqs : EmptyBatch(r)
    \/ \E r \in Reqs : Aggregate(r)

Spec == Init /\ [][Next]_vars

----------------------------------------------------------------------------
\* Vocabulary of the properties, stated on the inputs and not through the
\* handler's own tests.

\* Names that end in .pdf whatever the case of the letters.
PdfNames == {NameLowerPdf, NameUpperPdf}

\* Page texts that extract to at least 50 characters: one page of 60, and
\* pages of 24 and 25 joined by a newline.
LongTexts == {<<60>>, <<24, 0, 25>>}

Valid(f) == f.name \in PdfNames /\ f.size > 0 /\ f.ok /\ f.pages \in LongTexts

Skippable(f) ==
    \/ f.name \notin PdfNames
    \/ f.size = 0
    \/ ~f.ok
    \/ f.pages \notin LongTexts

\* The places, in upload order, of the valid files before place n.
ValidBefore(fs, n) ==
    SelectSeq([k \in 1..(n - 1) |-> k], LAMBDA k : Valid(fs[k]))

\* The places in the upload of the files the entries of `res` were made for.
EntryFiles(res) == [i \in 1..Len(res) |-> ent[res[i]].file]

Last(seq) == seq[Len(seq)]

Pos(seq, e) == CHOOSE i \in 1..Len(seq) : seq[i] = e

\* A rendered leaderboard in non-increasing score order.
ScoresDescend(page) ==
    \A i \in 1..(Len(page) - 1) : page[i].score >= page[i + 1].score

\* Every rendered entry carries its 1-based place as its rank.
RanksArePlaces(page) == \A i \in 1..Len(page) : page[i].rank = i

\* The AI call failed: no JSON object, or one the schema refuses.
Failed(raw) == raw.kind # "json" \/ raw.score < 0 \/ raw.score > 100

\* Request r takes a step.
Steps(r) == pc'[r] # pc[r] \/ idx'[r] # idx[r]

\* Request r has just appended an entry.
JustAppended(r) == aiRaw # NoRaw /\ running = r

----------------------------------------------------------------------------
\* C1: the sort-and-rank step that ends a POST /evaluate with results leaves
\* the same entries in non-increasing score order, the entry at place i with
\* rank i, and entries of equal score in the order they had before the sort.
C1_SortAndRank ==
    [][\A r \in Reqs :
          (pc[r] = "loop" /\ pc'[r] = "done" /\ results[r] # <<>>) =>
             /\ Len(rankings') = Len(rankings)
             /\ \A i \in 1..Len(rankings) :
                    \E j \in 1..Len(rankings') : rankings'[j] = rankings[i]
             /\ \A i \in 1..(Len(rankings') - 1) :
                    ent'[rankings'[i]].score >= ent'[rankings'[i + 1]].score
             /\ \A i \in 1..Len(rankings') :
                    /\ ent'[rankings'[i]].rank = i
                    /\ ent'[rankings'[i]].score = ent[rankings'[i]].score
             /\ \A i, j \in 1..Len(rankings') :
                    (/\ i < j
                     /\ ent'[rankings'[i]].score = ent'[rankings'[j]].score)
                        => Pos(rankings, rankings'[i]) < Pos(rankings, rankings'[j])
             /\ resp'.rankings = Render(rankings', ent')]_vars

\* A successful POST /evaluate whose sort moved an entry up past two entries of
\* equal score, which kept their order.
C1_Witness ==
    /\ resp.kind = "evaluate"
    /\ resp.error = ""
    /\ Len(resp.rankings) = 3
    /\ resp.rankings[1].score > resp.rankings[2].score
    /\ resp.rankings[2].score = resp.rankings[3].score
    /\ resp.rankings[1].id > resp.rankings[2].id
    /\ resp.rankings[2].id < resp.rankings[3].id

\* C2: every response that carries the leaderboard shows it sorted by score
\* descending with every entry's rank equal to its place.
C2_EveryResponseRanked ==
    resp.kind # "none" =>
        ScoresDescend(resp.rankings) /\ RanksArePlaces(resp.rankings)

\* C3: while a request is in flight its results hold exactly one entry per
\* valid file handled so far, in upload order, and the entry it has just
\* appended is the last of both its results and the leaderboard.
C3_OneEntryPerValidFile ==
    \A r \in Reqs :
        InFlight(r) =>
            /\ EntryFiles(results[r]) = ValidBefore(files[r], idx[r])
            /\ \A i, j \in 1..Len(results[r]) :
                   i # j => results[r][i] # results[r][j]
            /\ JustAppended(r) =>
                   /\ results[r] # <<>>
                   /\ rankings # <<>>
                   /\ Last(results[r]) = Last(rankings)
                   /\ Valid(files[r][ent[Last(rankings)].file])

\* A request at the end of its loop over three files, two of them valid (one
\* with an upper-case extension), with both entries made.
C3_Witness ==
    \E r \in Reqs :
        /\ pc[r] = "loop"
        /\ idx[r] = 4
        /\ Len(files[r]) = 3
        /\ Len(results[r]) = 2
        /\ \E k \in 1..3 : files[r][k].name = NameUpperPdf /\ Valid(files[r][k])
        /\ \E k \in 1..3 : Skippable(files[r][k])

\* C4: a skippable file gets no entry and no AI call, and the request goes on
\* to the next file with its results and the leaderboard as they were.
C4_SkippedFile ==
    /\ [](\A r \in Reqs :
             InFlight(r) =>
                /\ \A i \in 1..Len(results[r]) :
                       ~Skippable(files[r][ent[results[r][i]].file])
                /\ \A c \in calls : c[1] = r => ~Skippable(files[r][c[2]])
                /\ pc[r] = "ai" => ~Skippable(files[r][idx[r]]))
    /\ [][\A r \in Reqs :
             (/\ InFlight(r)
              /\ idx[r] <= Len(files[r])
              /\ Skippable(files[r][idx[r]])
              /\ Steps(r)) =>
                 /\ pc'[r] \in {"read", "check", "loop"}
                 /\ pc'[r] = "loop" => idx'[r] = idx[r] + 1
                 /\ pc'[r] # "loop" => idx'[r] = idx[r]
                 /\ files'[r] = files[r]
                 /\ results' = results
                 /\ rankings' = rankings
                 /\ ent' = ent
                 /\ calls' = calls
                 /\ resp' = NoResponse]_vars

\* A request that skipped its first two files, one by its name and one by its
\* text, and made an entry for the third.
C4_Witness ==
    \E r \in Reqs :
        /\ JustAppended(r)
        /\ idx[r] = 4
        /\ files[r][1].name = NameDocx
        /\ files[r][2].pages = <<24, 24>>
        /\ files[r][2].name = NameLowerPdf
        /\ EntryFiles(results[r]) = <<3>>

\* C5: when the AI call fails the file still gets an entry, the fallback one
\* (score 0, the fixed texts, no edits), appended to the results and to the
\* leaderboard, and the loop goes on to the next file.
C5_FallbackEntry ==
    (aiRaw # NoRaw /\ Failed(aiRaw)) =>
        \E r \in Reqs :
            /\ running = r
            /\ pc[r] = "loop"
            /\ results[r] # <<>>
            /\ rankings # <<>>
            /\ Last(results[r]) = Last(rankings)
            /\ LET e == ent[Last(rankings)]
               IN /\ e.score = 0
                  /\ e.suggestion = "AI Service Unavailable"
                  /\ e.justification = "Could not process resume."
                  /\ e.edits = <<>>
                  /\ e.file = idx[r] - 1
                  /\ Valid(files[r][e.file])

\* An out-of-range score for the first of two files, and the request about to
\* handle the second.
C5_Witness ==
    /\ aiRaw = Raw("json", 101)
    /\ \E r \in Reqs :
           /\ running = r
           /\ idx[r] = 2
           /\ Len(files[r]) = 2
           /\ ent[Last(rankings)].score = 0

\* C6: a request all of whose files are skippable changes neither the
\* leaderboard nor its entries at any step, and ends with the error page and
\* empty results beside the leaderboard as it is.
C6_EmptyBatch ==
    [][\A r \in Reqs :
          (/\ InFlight(r)
           /\ \A k \in 1..Len(files[r]) : Skippable(files[r][k])
           /\ Steps(r)) =>
              /\ rankings' = rankings
              /\ ent' = ent
              /\ pc'[r] = "done" =>
                    /\ resp'.kind = "evaluate"
                    /\ resp'.error = "No valid PDFs were processed."
                    /\ resp'.results = <<>>
                    /\ resp'.rankings = Render(rankings, ent)]_vars

\* The error page beside a leaderboard that holds an entry.
C6_Witness ==
    /\ resp.kind = "evaluate"
    /\ resp.error # ""
    /\ resp.results = <<>>
    /\ Len(resp.rankings) >= 1

\* C7, as claimed: after a POST /clear, and with no POST /evaluate begun since,
\* GET / returns an empty leaderboard.
C7_ReadAfterClearEmpty ==
    (/\ resp.kind = "index"
     /\ "noclear" \notin sinceClear
     /\ "start" \notin sinceClear) => resp.rankings = <<>>

\* C7, as amended: POST /clear leaves the leaderboard empty and renders it
\* empty, and GET / returns an empty leaderboard as long as no entry has been
\* appended since the last clear.
C7_ReadAfterClearUntilAppend ==
    /\ resp.kind = "clear" => (resp.rankings = <<>> /\ rankings = <<>>)
    /\ sinceClear = {} => rankings = <<>>
    /\ (/\ resp.kind = "index"
        /\ "noclear" \notin sinceClear
        /\ "append" \notin sinceClear) => resp.rankings = <<>>

\* GET / answers with an empty leaderboard after a clear that a request begun
\* before it has outlived without appending since.
C7_Witness ==
    /\ resp.kind = "index"
    /\ resp.rankings = <<>>
    /\ sinceClear = {}
    /\ \E r \in Reqs : pc[r] = "ai" /\ results[r] # <<>>

\* C8: a request has at most one AI call in flight, the call is for the file
\* the loop is at, every valid file before it has its entry in the results, and
\* the entries were made in upload order.
C8_Sequential ==
    \A r \in Reqs :
        /\ Cardinality({c \in calls : c[1] = r}) <= 1
        /\ \A c \in calls :
               c[1] = r =>
                  /\ pc[r] = "ai"
                  /\ c[2] = idx[r]
                  /\ EntryFiles(results[r]) = ValidBefore(files[r], c[2])
        /\ pc[r] = "ai" => <<r, idx[r]>> \in calls
        /\ InFlight(r) =>
              \A i, j \in 1..Len(results[r]) :
                  i < j => ent[results[r][i]].file < ent[results[r][j]].file
        /\ JustAppended(r) =>
              /\ Last(rankings) = Last(results[r])
              /\ ent[Last(rankings)].file = idx[r] - 1
              /\ \A c \in calls : c[1] # r

\* The AI call for the third file in flight with the entries of the first two
\* made.
C8_Witness ==
    \E r \in Reqs :
        /\ <<r, 3>> \in calls
        /\ EntryFiles(results[r]) = <<1, 2>>

\* C9: whenever no POST /evaluate is in flight, the stored leaderboard is in
\* non-increasing score order and every stored entry's rank is its place.
C9_QuiescentSorted ==
    (\A r \in Reqs : ~InFlight(r)) =>
        /\ ScoresDescend(Render(rankings, ent))
        /\ RanksArePlaces(Render(rankings, ent))

\* Two overlapping requests have ended and left three entries of two scores.
C9_Witness ==
    /\ load = "overlap"
    /\ \A r \in Reqs : pc[r] = "done"
    /\ Len(rankings) = 3
    /\ ent[rankings[1]].score > ent[rankings[3]].score
    /\ rankings # <<1, 2, 3>>

\* C10: in a successful POST /evaluate response every entry of the results is
\* in the leaderboard of the same response, at the place its rank says.
C10_ResultsInLeaderboard ==
    (resp.kind = "evaluate" /\ resp.error = "") =>
        \A i \in 1..Len(resp.results) :
            \E j \in 1..Len(resp.rankings) :
                /\ resp.rankings[j].id = resp.results[i].id
                /\ resp.results[i].rank = j

=============================================================================
